---- MODULE Spec2Model ----
(***************************************************************************)
(* Model of the weather dashboard: the useGeolocation hook (the location   *)
(* resolver), the WeatherApp component (the orchestrator) and the parts of *)
(* lib/weather-service.ts they call.                                       *)
(*                                                                         *)
(* Conventions.                                                            *)
(*  - A nullable value of the source (T | null) is a sequence of length at *)
(*    most one: Null is <<>> and Some(v) is <<v>>.                         *)
(*  - Degrees are fixed point, in units of 1/10000 degree.                 *)
(*  - A message is the sequence of its sentences, so that string           *)
(*    concatenation is \o and "contains" is membership of a sentence.      *)
(*  - One action is one task of the event loop: the handler or callback,   *)
(*    the render it causes and the effects of that render whose            *)
(*    dependencies changed, in declaration order.                          *)
(***************************************************************************)
EXTENDS Integers, Sequences, FiniteSets, TLC

\* ------------------------------------------------------------------ bounds
MaxAttempts == 2      \* calls of requestGeolocation in one behaviour
MaxFetches  == 2      \* weather requests started in one behaviour
MaxItems    == 6      \* entries of the forecast list of an upstream response

\* --------------------------------------------------------------- constants
Null    == <<>>
Some(v) == <<v>>

FALLBACK_LAT == 407128      \* 40.7128
FALLBACK_LON == -740060     \* -74.0060
EPSILON      == 100         \* 0.01

PERMISSION_DENIED    == 1
POSITION_UNAVAILABLE == 2
TIMEOUT              == 3
OTHER_CODE           == 4   \* stands for every code that is not 1, 2 or 3
ErrorCodes == {PERMISSION_DENIED, POSITION_UNAVAILABLE, TIMEOUT, OTHER_CODE}

\* positions the browser may report: one far from the fallback constant,
\* one equal to it
Positions == { [lat |-> 488566, lon |-> 23522],
               [lat |-> FALLBACK_LAT, lon |-> FALLBACK_LON] }


QueryResults == {"granted", "denied", "prompt", "reject"}

UsingDefault == "Using default location instead."

UnsupportedMsg == <<"Geolocation is not supported by your browser">>

PreflightDeniedMsg(ff) ==
    IF ff THEN <<"Permission denied.",
                 "Please allow location access in your Firefox settings (Address Bar icon or Settings -> Privacy & Security -> Permissions -> Location).">>
          ELSE <<"Permission denied.",
                 "Please allow location access in your browser settings.">>

CallbackDeniedMsg(ff) ==
    IF ff THEN <<"Permission denied.",
                 "Please allow location access in Firefox settings (Address Bar icon or Settings -> Privacy & Security -> Permissions -> Location).">>
          ELSE <<"Permission denied.",
                 "Please allow location access to use this feature.">>

UnavailableMsg(ff) ==
    IF ff THEN <<"Location permission granted, but position is currently unavailable.",
                 "Please check your Operating System's location settings to ensure Firefox has access and location services are enabled.",
                 UsingDefault>>
          ELSE <<"Location unavailable.", UsingDefault>>

TimeoutMsg == <<"Location request timed out.", UsingDefault>>

GenericMsg == <<"Geolocation error (code): message.", UsingDefault>>

UnexpectedMsg == <<"Unexpected error getting location.">>

FailedFetchMsg == <<"Failed to fetch weather data: message">>

NotFoundMsg == <<"Location not found.", "Please try another search term.">>

Contains(msg, sentence) == \E i \in 1..Len(msg) : msg[i] = sentence

\* ------------------------------------------------------------------- state
VARIABLES
    mounted,          \* the component's mount effects have run
    hasGeolocation,   \* navigator.geolocation is present
    hasPermissions,   \* navigator.permissions.query is present
    isFirefox,        \* isFirefoxRef.current after mount
    geo,              \* useGeolocation's state
    attemptCount,     \* attemptCountRef.current
    reqPhase,         \* per requestGeolocation call: its pending operation
    timerPending,     \* handleAllowLocation's setTimeout has not fired yet
    app,              \* WeatherApp's state
    fetches,          \* weather requests in flight
    fetchCount,       \* weather requests started so far
    posCalled,        \* history: calls for which getCurrentPosition was called
    deniedAt,         \* history: attemptCount at the latest entry into Denied
    lastEvent,        \* history: the task that produced this state; for a
                      \* request that completed with success, arg is the
                      \* request whose record was held before it
    env,              \* the clock of the runtime: its UTC offset and the time
                      \* now, in hours
    upstream,         \* the provider's responses to one fetchWeatherData call
    formatted,        \* the record formatWeatherDataFromAPI25 built from them
    served            \* the latest call of a function of the weather service:
                      \* its arguments, the requests it issued, its outcome

appVars == << mounted, hasGeolocation, hasPermissions, isFirefox, geo,
              attemptCount, reqPhase, timerPending, app, fetches, fetchCount,
              posCalled, deniedAt, lastEvent >>

serviceVars == << env, upstream, formatted, served >>

vars == << appVars, serviceVars >>

Attempts == 1..MaxAttempts

InitialGeo ==
    [ coordinates       |-> Null,
      error             |-> Null,
      loading           |-> FALSE,
      permissionGranted |-> Null,
      permissionState   |-> Null ]

InitialApp ==
    [ searchQuery         |-> <<>>,
      weatherData         |-> Null,
      loading             |-> FALSE,
      error               |-> Null,
      showPermissionModal |-> FALSE ]

fallbackWeatherData == [ location |-> "NEW YORK, US", body |-> 0 ]

\* no response received yet
NoResponse == [ temp |-> 0, visibility |-> Null, list |-> <<>> ]

Event(kind, req, arg) == [ kind |-> kind, req |-> req, arg |-> arg ]

Init ==
    /\ mounted = FALSE
    /\ hasGeolocation \in BOOLEAN
    /\ hasPermissions \in BOOLEAN
    /\ isFirefox \in BOOLEAN
    /\ geo = InitialGeo
    /\ attemptCount = 0
    /\ reqPhase = [r \in Attempts |-> "none"]
    /\ timerPending = FALSE
    /\ app = InitialApp
    /\ fetches = {}
    /\ fetchCount = 0
    /\ posCalled = {}
    /\ deniedAt = 0
    /\ lastEvent = Event("init", 0, 0)
    /\ env = [tz |-> 0, now |-> 0]
    /\ upstream = NoResponse
    /\ formatted = Null
    /\ served = Null

\* --------------------------------------------------- resolver state values
\* useFallbackLocation: the state it sets
useFallbackLocation(errorMessage) ==
    [ coordinates       |-> Some([lat |-> FALLBACK_LAT, lon |-> FALLBACK_LON]),
      error             |-> Some(errorMessage \o <<UsingDefault>>),
      loading           |-> FALSE,
      permissionGranted |-> Some(TRUE),
      permissionState   |-> Some("fallback") ]

\* the state set when the runtime has no geolocation
UnsupportedState(prev) ==
    [ prev EXCEPT !.error             = Some(UnsupportedMsg),
                  !.permissionGranted = Some(FALSE),
                  !.loading           = FALSE,
                  !.permissionState   = Some("unsupported") ]

\* the state set when the permission query reports 'denied'
PreflightDeniedState(ff) ==
    [ coordinates       |-> Null,
      error             |-> Some(PreflightDeniedMsg(ff)),
      loading           |-> FALSE,
      permissionGranted |-> Some(FALSE),
      permissionState   |-> Some("denied") ]

\* SuccessState keeping the error of the state before
SuccessState_KeepsError(position) ==
    [ coordinates       |-> Some([lat |-> position.lat, lon |-> position.lon]),
      error             |-> geo.error,
      loading           |-> FALSE,
      permissionGranted |-> Some(TRUE),
      permissionState   |-> Some("granted") ]

\* the state set by the success callback of getCurrentPosition
SuccessState(position) ==
    [ coordinates       |-> Some([lat |-> position.lat, lon |-> position.lon]),
      error             |-> Null,
      loading           |-> FALSE,
      permissionGranted |-> Some(TRUE),
      permissionState   |-> Some("granted") ]

\* ErrorState with the timeout branch reporting the failure without
\* substituting the default location
ErrorState_TimeoutBlocks(code, ff) ==
    IF code = PERMISSION_DENIED
    THEN [ coordinates       |-> Null,
           error             |-> Some(CallbackDeniedMsg(ff)),
           loading           |-> FALSE,
           permissionGranted |-> Some(FALSE),
           permissionState   |-> Some("denied") ]
    ELSE IF code = POSITION_UNAVAILABLE
    THEN useFallbackLocation(UnavailableMsg(ff))
    ELSE IF code = TIMEOUT
    THEN [ coordinates       |-> Null,
           error             |-> Some(<<"Location request timed out.">>),
           loading           |-> FALSE,
           permissionGranted |-> Some(TRUE),
           permissionState   |-> Some("fallback") ]
    ELSE useFallbackLocation(GenericMsg)

\* ErrorState with the permission-denied branch keeping the coordinates held
ErrorState_DeniedKeepsCoords(code, ff) ==
    IF code = PERMISSION_DENIED
    THEN [ coordinates       |-> geo.coordinates,
           error             |-> Some(CallbackDeniedMsg(ff)),
           loading           |-> FALSE,
           permissionGranted |-> Some(FALSE),
           permissionState   |-> Some("denied") ]
    ELSE IF code = POSITION_UNAVAILABLE
    THEN useFallbackLocation(UnavailableMsg(ff))
    ELSE IF code = TIMEOUT
    THEN useFallbackLocation(TimeoutMsg)
    ELSE useFallbackLocation(GenericMsg)

\* the state set by the error callback of getCurrentPosition
ErrorState(code, ff) ==
    IF code = PERMISSION_DENIED
    THEN [ coordinates       |-> Null,
           error             |-> Some(CallbackDeniedMsg(ff)),
           loading           |-> FALSE,
           permissionGranted |-> Some(FALSE),
           permissionState   |-> Some("denied") ]
    ELSE IF code = POSITION_UNAVAILABLE
    THEN useFallbackLocation(UnavailableMsg(ff))
    ELSE IF code = TIMEOUT
    THEN useFallbackLocation(TimeoutMsg)
    ELSE useFallbackLocation(GenericMsg)

\* ------------------------------------------------ the orchestrator's effects
\* The [coordinates] dependency is compared by reference: a state built from
\* an object literal carries a new object, one built from ...prev does not.
CoordsChanged_ByValue(g0, g1, fresh) ==
    g0.coordinates # g1.coordinates

CoordsChanged(g0, g1, fresh) ==
    \/ g0.coordinates # g1.coordinates
    \/ fresh /\ g1.coordinates # Null

\* the effect on [coordinates] starts fetchWeatherByCoordinates
StartsFetch(g0, g1, fresh) ==
    CoordsChanged(g0, g1, fresh) /\ g1.coordinates # Null

\* GeoErrorEffect without the exemption of the fallback
GeoErrorEffect_Always(g1) ==
    g1.error

\* the effect on [geoError, permissionGranted, coordinates]: the error it sets
GeoErrorEffect(g1) ==
    IF g1.error # Null
    THEN IF g1.permissionGranted = Some(FALSE) \/ g1.coordinates = Null
         THEN g1.error
         ELSE Null
    ELSE Null

GeoErrorEffectRuns(g0, g1, fresh) ==
    \/ g0.error # g1.error
    \/ g0.permissionGranted # g1.permissionGranted
    \/ CoordsChanged(g0, g1, fresh)

\* the request record of fetchWeatherByCoordinates(lat, lon); held tells
\* whether weatherData is non-null in the render whose closure the call runs
\* in (the catch block reads nothing else of it)
CoordsFetch(id, c, weatherData) ==
    [ id |-> id, kind |-> "coords", lat |-> c.lat, lon |-> c.lon,
      held |-> (weatherData # Null), query |-> <<>> ]

\* ModalEffect opening the modal whenever permission is not granted
ModalEffect_WhenRefused(g0, g1) ==
    g0.permissionGranted # g1.permissionGranted /\ g1.permissionGranted # Some(TRUE)

\* the effect on [permissionGranted]: whether it opens the permission modal
ModalEffect(g0, g1) ==
    g0.permissionGranted # g1.permissionGranted /\ g1.permissionGranted = Null

\* WeatherApp after the render that follows a change of the hook's state:
\* the modal effect, the coordinates effect, the geoError effect
AppAfterEffects(a, g0, g1, fresh) ==
    LET a0 == IF ModalEffect(g0, g1)
              THEN [a EXCEPT !.showPermissionModal = TRUE]
              ELSE a
        a1 == IF StartsFetch(g0, g1, fresh)
              THEN [a0 EXCEPT !.loading = TRUE, !.error = Null]
              ELSE a0
    IN  IF GeoErrorEffectRuns(g0, g1, fresh)
        THEN [a1 EXCEPT !.error = GeoErrorEffect(g1)]
        ELSE a1

\* the hook's state becomes g1 and WeatherApp renders
SetGeo(g1, fresh) ==
    /\ StartsFetch(geo, g1, fresh) => fetchCount < MaxFetches
    /\ geo' = g1
    /\ deniedAt' = IF fresh /\ g1.permissionState = Some("denied")
                   THEN attemptCount ELSE deniedAt
    /\ app' = AppAfterEffects(app, geo, g1, fresh)
    /\ IF StartsFetch(geo, g1, fresh)
       THEN /\ fetchCount' = fetchCount + 1
            /\ fetches' = fetches \cup
                 { CoordsFetch(fetchCount + 1, g1.coordinates[1], app.weatherData) }
       ELSE UNCHANGED << fetchCount, fetches >>

\* ------------------------------------------------------------------ actions
\* first render: the three effects run once
Mount ==
    /\ ~mounted
    /\ mounted' = TRUE
    /\ app' = [app EXCEPT !.showPermissionModal = (geo.permissionGranted = Null),
                          !.error = GeoErrorEffect(geo)]
    /\ lastEvent' = Event("mount", 0, 0)
    /\ UNCHANGED << serviceVars, hasGeolocation, hasPermissions, isFirefox, geo, attemptCount,
                    reqPhase, timerPending, fetches, fetchCount, posCalled, deniedAt >>

\* CallGetCurrentPosition without the outer catch: an exception of the call
\* leaves the request as it is and escapes
CallGetCurrentPosition_NoCatch(r, throws, g) ==
    /\ posCalled' = posCalled \cup {r}
    /\ IF throws
       THEN /\ reqPhase' = [reqPhase EXCEPT ![r] = "escaped"]
            /\ SetGeo(g, FALSE)
       ELSE /\ reqPhase' = [reqPhase EXCEPT ![r] = "position"]
            /\ SetGeo(g, FALSE)

\* navigator.geolocation.getCurrentPosition is called for request r while the
\* hook's state is g; throws says whether the call itself throws, which the
\* outer catch turns into useFallbackLocation
CallGetCurrentPosition(r, throws, g) ==
    /\ posCalled' = posCalled \cup {r}
    /\ IF throws
       THEN /\ reqPhase' = [reqPhase EXCEPT ![r] = "done"]
            /\ SetGeo(useFallbackLocation(UnexpectedMsg), TRUE)
       ELSE /\ reqPhase' = [reqPhase EXCEPT ![r] = "position"]
            /\ SetGeo(g, FALSE)

\* requestGeolocation without the update that sets loading
requestGeolocation_NoLoading(throws, by) ==
    /\ attemptCount < MaxAttempts
    /\ attemptCount' = attemptCount + 1
    /\ IF ~hasGeolocation
       THEN /\ SetGeo(UnsupportedState(geo), FALSE)
            /\ reqPhase' = [reqPhase EXCEPT ![attemptCount + 1] = "done"]
            /\ UNCHANGED posCalled
            /\ lastEvent' = Event(by, attemptCount + 1, "unsupported")
       ELSE IF hasPermissions
       THEN /\ SetGeo(geo, FALSE)
            /\ reqPhase' = [reqPhase EXCEPT ![attemptCount + 1] = "query"]
            /\ UNCHANGED posCalled
            /\ lastEvent' = Event(by, attemptCount + 1, "query")
       ELSE /\ CallGetCurrentPosition(attemptCount + 1, throws, geo)
            /\ lastEvent' = Event(by, attemptCount + 1,
                                  IF throws THEN "threw" ELSE "position")

\* requestGeolocation restarting from the initial state of the hook
requestGeolocation_Resets(throws, by) ==
    /\ attemptCount < MaxAttempts
    /\ attemptCount' = attemptCount + 1
    /\ IF ~hasGeolocation
       THEN /\ SetGeo(UnsupportedState(geo), FALSE)
            /\ reqPhase' = [reqPhase EXCEPT ![attemptCount + 1] = "done"]
            /\ UNCHANGED posCalled
            /\ lastEvent' = Event(by, attemptCount + 1, "unsupported")
       ELSE IF hasPermissions
       THEN /\ SetGeo([InitialGeo EXCEPT !.loading = TRUE], FALSE)
            /\ reqPhase' = [reqPhase EXCEPT ![attemptCount + 1] = "query"]
            /\ UNCHANGED posCalled
            /\ lastEvent' = Event(by, attemptCount + 1, "query")
       ELSE /\ CallGetCurrentPosition(attemptCount + 1, throws,
                                      [InitialGeo EXCEPT !.loading = TRUE])
            /\ lastEvent' = Event(by, attemptCount + 1,
                                  IF throws THEN "threw" ELSE "position")

\* requestGeolocation up to its first suspension point
requestGeolocation(throws, by) ==
    /\ attemptCount < MaxAttempts
    /\ attemptCount' = attemptCount + 1
    /\ IF ~hasGeolocation
       THEN /\ SetGeo(UnsupportedState(geo), FALSE)
            /\ reqPhase' = [reqPhase EXCEPT ![attemptCount + 1] = "done"]
            /\ UNCHANGED posCalled
            /\ lastEvent' = Event(by, attemptCount + 1, "unsupported")
       ELSE IF hasPermissions
       THEN /\ SetGeo([geo EXCEPT !.loading = TRUE], FALSE)
            /\ reqPhase' = [reqPhase EXCEPT ![attemptCount + 1] = "query"]
            /\ UNCHANGED posCalled
            /\ lastEvent' = Event(by, attemptCount + 1, "query")
       ELSE /\ CallGetCurrentPosition(attemptCount + 1, throws,
                                      [geo EXCEPT !.loading = TRUE])
            /\ lastEvent' = Event(by, attemptCount + 1,
                                  IF throws THEN "threw" ELSE "position")

\* the location button: rendered while WeatherApp is not loading, disabled
\* while the hook is loading
ClickLocationButton ==
    /\ mounted
    /\ ~app.loading
    /\ ~geo.loading
    /\ \E throws \in BOOLEAN :
          /\ throws => (hasGeolocation /\ ~hasPermissions)
          /\ requestGeolocation(throws, "buttonRequest")
    /\ UNCHANGED << serviceVars, mounted, hasGeolocation, hasPermissions, isFirefox,
                    timerPending >>

\* Allow in the permission modal: closes it and arms the timer
handleAllowLocation ==
    /\ mounted
    /\ app.showPermissionModal
    /\ app' = [app EXCEPT !.showPermissionModal = FALSE]
    /\ timerPending' = TRUE
    /\ lastEvent' = Event("allow", 0, 0)
    /\ UNCHANGED << serviceVars, mounted, hasGeolocation, hasPermissions, isFirefox, geo,
                    attemptCount, reqPhase, fetches, fetchCount, posCalled, deniedAt >>

\* the timer armed by handleAllowLocation fires
AllowTimerFires ==
    /\ timerPending
    /\ timerPending' = FALSE
    /\ \E throws \in BOOLEAN :
          /\ throws => (hasGeolocation /\ ~hasPermissions)
          /\ requestGeolocation(throws, "timerRequest")
    /\ UNCHANGED << serviceVars, mounted, hasGeolocation, hasPermissions, isFirefox >>

\* handleDenyLocation arming the timer as handleAllowLocation does
handleDenyLocation_Requests ==
    /\ mounted
    /\ app.showPermissionModal
    /\ app' = [app EXCEPT !.showPermissionModal = FALSE,
                          !.weatherData = IF app.weatherData = Null
                                          THEN Some(fallbackWeatherData)
                                          ELSE app.weatherData]
    /\ timerPending' = TRUE
    /\ lastEvent' = Event("deny", 0, 0)
    /\ UNCHANGED << serviceVars, mounted, hasGeolocation, hasPermissions, isFirefox, geo,
                    attemptCount, reqPhase, fetches, fetchCount,
                    posCalled, deniedAt >>

\* handleDenyLocation closing the modal without storing the fallback record
handleDenyLocation_NoFallback ==
    /\ mounted
    /\ app.showPermissionModal
    /\ app' = [app EXCEPT !.showPermissionModal = FALSE]
    /\ lastEvent' = Event("deny", 0, 0)
    /\ UNCHANGED << serviceVars, mounted, hasGeolocation, hasPermissions, isFirefox, geo,
                    attemptCount, reqPhase, timerPending, fetches, fetchCount,
                    posCalled, deniedAt >>

\* Deny (or the close button) in the permission modal
handleDenyLocation ==
    /\ mounted
    /\ app.showPermissionModal
    /\ app' = [app EXCEPT !.showPermissionModal = FALSE,
                          !.weatherData = IF app.weatherData = Null
                                          THEN Some(fallbackWeatherData)
                                          ELSE app.weatherData]
    /\ lastEvent' = Event("deny", 0, 0)
    /\ UNCHANGED << serviceVars, mounted, hasGeolocation, hasPermissions, isFirefox, geo,
                    attemptCount, reqPhase, timerPending, fetches, fetchCount,
                    posCalled, deniedAt >>

\* PermissionQuerySettles without the return of the 'denied' branch: the
\* position is requested all the same
PermissionQuerySettles_NoReturn(r, result, throws) ==
    /\ reqPhase[r] = "query"
    /\ IF result = "denied"
       THEN /\ SetGeo(PreflightDeniedState(isFirefox), TRUE)
            /\ reqPhase' = [reqPhase EXCEPT ![r] = "position"]
            /\ posCalled' = posCalled \cup {r}
            /\ lastEvent' = Event("queryDenied", r, result)
       ELSE /\ CallGetCurrentPosition(r, throws, geo)
            /\ lastEvent' = Event(IF throws THEN "queryThrew" ELSE "queryPassed",
                                  r, result)
    /\ UNCHANGED << serviceVars, mounted, hasGeolocation, hasPermissions, isFirefox,
                    attemptCount, timerPending >>

\* navigator.permissions.query settles for request r
PermissionQuerySettles(r, result, throws) ==
    /\ reqPhase[r] = "query"
    /\ IF result = "denied"
       THEN /\ SetGeo(PreflightDeniedState(isFirefox), TRUE)
            /\ reqPhase' = [reqPhase EXCEPT ![r] = "done"]
            /\ UNCHANGED posCalled
            /\ lastEvent' = Event("queryDenied", r, result)
       ELSE /\ CallGetCurrentPosition(r, throws, geo)
            /\ lastEvent' = Event(IF throws THEN "queryThrew" ELSE "queryPassed",
                                  r, 0)
    /\ UNCHANGED << serviceVars, mounted, hasGeolocation, hasPermissions, isFirefox,
                    attemptCount, timerPending >>

\* the success callback of getCurrentPosition for request r
PositionSuccess(r, position) ==
    /\ reqPhase[r] = "position"
    /\ reqPhase' = [reqPhase EXCEPT ![r] = "done"]
    /\ SetGeo(SuccessState(position), TRUE)
    /\ lastEvent' = Event("success", r, 0)
    /\ UNCHANGED << serviceVars, mounted, hasGeolocation, hasPermissions, isFirefox,
                    attemptCount, timerPending, posCalled >>

\* the error callback of getCurrentPosition for request r
PositionError(r, code) ==
    /\ reqPhase[r] = "position"
    /\ reqPhase' = [reqPhase EXCEPT ![r] = "done"]
    /\ SetGeo(ErrorState(code, isFirefox), TRUE)
    /\ lastEvent' = Event("error", r, code)
    /\ UNCHANGED << serviceVars, mounted, hasGeolocation, hasPermissions, isFirefox,
                    attemptCount, timerPending, posCalled >>

\* ---------------------------------------------------------- weather service
\* String.prototype.trim on a sequence of characters
RECURSIVE TrimLeft(_)
TrimLeft(q) ==
    IF q # <<>> /\ Head(q) = " " THEN TrimLeft(Tail(q)) ELSE q

RECURSIVE TrimRight(_)
TrimRight(q) ==
    IF q # <<>> /\ q[Len(q)] = " " THEN TrimRight(SubSeq(q, 1, Len(q) - 1)) ELSE q

Trim(q) == TrimRight(TrimLeft(q))

\* texts the user may type in the search field
Queries == { <<" ">>, <<" ", "P">> }

Abs(x) == IF x < 0 THEN -x ELSE x

NearFallback(lat, lon) ==
    Abs(lat - FALLBACK_LAT) < EPSILON /\ Abs(lon - FALLBACK_LON) < EPSILON

\* outcomes of the reverse-geocoding call
ReverseOutcomes == {"notOk", "throws", "empty", "noName", "named"}

\* getCityFromCoords: the string it resolves to
getCityFromCoords(lat, lon, outcome) ==
    IF outcome = "notOk"
    THEN IF NearFallback(lat, lon) THEN "NEW YORK, US" ELSE "Current Location"
    ELSE IF outcome = "empty"
    THEN "Current Location"
    ELSE IF outcome = "named"
    THEN "NAME, CC"
    ELSE \* fetch or json rejects, or name.toUpperCase() throws: the catch block
         IF NearFallback(lat, lon) THEN "NEW YORK, US" ELSE "Current Location"

\* the record formatWeatherDataFromAPI25 builds from the responses to request id
WeatherRecord(id) == [ location |-> "Current Location", body |-> id ]

\* the request whose record the orchestrator holds: 0 for the hardcoded
\* fallback record, -1 when it holds none
HeldBody(a) == IF a.weatherData = Null THEN -1 ELSE a.weatherData[1].body

\* ------------------------------------------------------ orchestrator actions
\* A request of the orchestrator awaits several calls in a row and touches no
\* state between them, so it is one pending operation that settles once: with
\* the first failure, or with the results of all its calls.

\* typing in the search field (the input is disabled while loading)
TypeQuery(text) ==
    /\ mounted
    /\ ~app.loading
    /\ text # app.searchQuery
    /\ app' = [app EXCEPT !.searchQuery = text]
    /\ lastEvent' = Event("type", 0, 0)
    /\ UNCHANGED << serviceVars, mounted, hasGeolocation, hasPermissions, isFirefox, geo,
                    attemptCount, reqPhase, timerPending, fetches, fetchCount,
                    posCalled, deniedAt >>

\* handleSearch testing the text as typed, without trimming it
handleSearch_NoTrim ==
    /\ mounted
    /\ ~app.loading
    /\ IF app.searchQuery = <<>>
       THEN /\ lastEvent' = Event("searchBlank", 0, 0)
            /\ UNCHANGED << app, fetches, fetchCount >>
       ELSE /\ fetchCount < MaxFetches
            /\ fetchCount' = fetchCount + 1
            /\ app' = [app EXCEPT !.loading = TRUE, !.error = Null]
            /\ fetches' = fetches \cup
                 { [ id |-> fetchCount + 1, kind |-> "search", lat |-> 0,
                     lon |-> 0, held |-> FALSE, query |-> app.searchQuery ] }
            /\ lastEvent' = Event("search", fetchCount + 1, 0)
    /\ UNCHANGED << serviceVars, mounted, hasGeolocation, hasPermissions, isFirefox, geo,
                    attemptCount, reqPhase, timerPending, posCalled, deniedAt >>

\* handleSearch up to its first suspension point (the form is disabled while
\* loading)
handleSearch ==
    /\ mounted
    /\ ~app.loading
    /\ IF Trim(app.searchQuery) = <<>>
       THEN /\ lastEvent' = Event("searchBlank", 0, 0)
            /\ UNCHANGED << app, fetches, fetchCount >>
       ELSE /\ fetchCount < MaxFetches
            /\ fetchCount' = fetchCount + 1
            /\ app' = [app EXCEPT !.loading = TRUE, !.error = Null]
            /\ fetches' = fetches \cup
                 { [ id |-> fetchCount + 1, kind |-> "search", lat |-> 0,
                     lon |-> 0, held |-> FALSE, query |-> app.searchQuery ] }
            /\ lastEvent' = Event("search", fetchCount + 1, 0)
    /\ UNCHANGED << serviceVars, mounted, hasGeolocation, hasPermissions, isFirefox, geo,
                    attemptCount, reqPhase, timerPending, posCalled, deniedAt >>

\* outcomes of fetchWeatherByCity: the geocoding call fails, it returns no
\* match, fetchWeatherData fails for the first match, or it succeeds
SearchOutcomes == {"geocodeError", "noMatch", "weatherError", "ok"}

\* SearchSettles dropping the held record when the search fails
SearchSettles_DropsRecord(f, outcome) ==
    /\ f \in fetches
    /\ f.kind = "search"
    /\ fetches' = fetches \ {f}
    /\ IF outcome = "ok"
       THEN /\ app' = [app EXCEPT !.weatherData = Some(WeatherRecord(f.id)),
                                  !.searchQuery = <<>>,
                                  !.loading = FALSE]
            /\ lastEvent' = Event("searchDone", f.id, HeldBody(app))
       ELSE /\ app' = [app EXCEPT !.error = Some(NotFoundMsg),
                                  !.weatherData = Null,
                                  !.loading = FALSE]
            /\ lastEvent' = Event("searchFailed", f.id, 0)
    /\ UNCHANGED << serviceVars, mounted, hasGeolocation, hasPermissions, isFirefox, geo,
                    attemptCount, reqPhase, timerPending, fetchCount,
                    posCalled, deniedAt >>

\* fetchWeatherByCity settles for the search f: the rest of handleSearch
SearchSettles(f, outcome) ==
    /\ f \in fetches
    /\ f.kind = "search"
    /\ fetches' = fetches \ {f}
    /\ IF outcome = "ok"
       THEN /\ app' = [app EXCEPT !.weatherData = Some(WeatherRecord(f.id)),
                                  !.searchQuery = <<>>,
                                  !.loading = FALSE]
            /\ lastEvent' = Event("searchDone", f.id, HeldBody(app))
       ELSE /\ app' = [app EXCEPT !.error = Some(NotFoundMsg),
                                  !.loading = FALSE]
            /\ lastEvent' = Event("searchFailed", f.id, 0)
    /\ UNCHANGED << serviceVars, mounted, hasGeolocation, hasPermissions, isFirefox, geo,
                    attemptCount, reqPhase, timerPending, fetchCount,
                    posCalled, deniedAt >>

\* outcomes of fetchWeatherByCoordinates: fetchWeatherData fails, or it
\* succeeds and getCityFromCoords ends in one of its ways
CoordsOutcomes == {"weatherError"} \cup ReverseOutcomes

\* CoordsFetchSettles discarding the response of a request that a later one
\* has superseded
CoordsFetchSettles_DropsSuperseded(f, outcome) ==
    /\ f \in fetches
    /\ f.kind = "coords"
    /\ fetches' = fetches \ {f}
    /\ IF outcome = "weatherError"
       THEN /\ app' = [app EXCEPT
                        !.error = IF ~f.held THEN Some(FailedFetchMsg) ELSE @,
                        !.weatherData = IF ~f.held
                                        THEN Some(fallbackWeatherData) ELSE @,
                        !.loading = FALSE]
            /\ lastEvent' = Event("coordsFailed", f.id, 0)
       ELSE /\ app' = [app EXCEPT
                        !.weatherData =
                            IF f.id < fetchCount
                            THEN @
                            ELSE Some([WeatherRecord(f.id) EXCEPT
                                    !.location =
                                        getCityFromCoords(f.lat, f.lon, outcome)]),
                        !.loading = FALSE]
            /\ lastEvent' = Event("coordsDone", f.id, HeldBody(app))
    /\ UNCHANGED << serviceVars, mounted, hasGeolocation, hasPermissions, isFirefox, geo,
                    attemptCount, reqPhase, timerPending, fetchCount,
                    posCalled, deniedAt >>

\* fetchWeatherData and getCityFromCoords have settled for the request f: the
\* rest of fetchWeatherByCoordinates; weatherData in its catch block is the
\* one of the closure
CoordsFetchSettles(f, outcome) ==
    /\ f \in fetches
    /\ f.kind = "coords"
    /\ fetches' = fetches \ {f}
    /\ IF outcome = "weatherError"
       THEN /\ app' = [app EXCEPT
                        !.error = IF ~f.held THEN Some(FailedFetchMsg) ELSE @,
                        !.weatherData = IF ~f.held
                                        THEN Some(fallbackWeatherData) ELSE @,
                        !.loading = FALSE]
            /\ lastEvent' = Event("coordsFailed", f.id, 0)
       ELSE /\ app' = [app EXCEPT
                        !.weatherData =
                            Some([WeatherRecord(f.id) EXCEPT
                                    !.location =
                                        getCityFromCoords(f.lat, f.lon, outcome)]),
                        !.loading = FALSE]
            /\ lastEvent' = Event("coordsDone", f.id, HeldBody(app))
    /\ UNCHANGED << serviceVars, mounted, hasGeolocation, hasPermissions, isFirefox, geo,
                    attemptCount, reqPhase, timerPending, fetchCount,
                    posCalled, deniedAt >>

Next ==
    \/ Mount
    \/ ClickLocationButton
    \/ handleAllowLocation
    \/ AllowTimerFires
    \/ handleDenyLocation
    \/ \E r \in Attempts, result \in QueryResults, throws \in BOOLEAN :
          PermissionQuerySettles(r, result, throws)
    \/ \E r \in Attempts, position \in Positions : PositionSuccess(r, position)
    \/ \E r \in Attempts, code \in ErrorCodes : PositionError(r, code)
    \/ \E text \in Queries : TypeQuery(text)
    \/ handleSearch
    \/ \E f \in fetches, outcome \in SearchOutcomes : SearchSettles(f, outcome)
    \/ \E f \in fetches, outcome \in CoordsOutcomes : CoordsFetchSettles(f, outcome)

Spec == Init /\ [][Next]_vars

\* ------------------------------------------- formatWeatherDataFromAPI25
\* Times are whole hours since 1970-01-01T00:00Z, temperatures are tenths of
\* a degree. A forecast item is [dt, temp, main]; the clock e is [tz, now],
\* tz being the UTC offset of the runtime's local time.
FORECAST_DAYS == 5
NOON_FROM == 11
NOON_TO   == 13
DEFAULT_VISIBILITY == 10000

DAYS == << "SUN", "MON", "TUE", "WED", "THU", "FRI", "SAT" >>

\* Math.round on tenths: the nearest integer, a half rounding up
Round(x) == (x + 5) \div 10

\* String.prototype.toLowerCase on the condition names of the provider
ToLower(main) ==
    CASE main = "Rain"  -> "rain"
      [] main = "Clear" -> "clear"
      [] OTHER          -> main

\* date.toISOString().split('T')[0]: the UTC calendar day, as a day number
UtcDay(dt) == dt \div 24

\* date.getHours(): the hour of the local time
LocalHour(dt, e) == (dt + e.tz) % 24

\* the local calendar day, as a day number
LocalDay(dt, e) == (dt + e.tz) \div 24

\* DAYS[date.getDay()] for a local day number (1970-01-01 was a Thursday)
DayName(localDay) == DAYS[((localDay + 4) % 7) + 1]

\* Object.keys(forecastsByDay): the days in the order of their first entry
RECURSIVE DayKeys(_, _)
DayKeys(list, acc) ==
    IF list = <<>>
    THEN acc
    ELSE LET day == UtcDay(Head(list).dt)
         IN  DayKeys(Tail(list),
                     IF \E i \in 1..Len(acc) : acc[i] = day
                     THEN acc
                     ELSE Append(acc, day))

\* forecastsByDay[day]
ItemsOfDay(list, day) ==
    SelectSeq(list, LAMBDA item : UtcDay(item.dt) = day)

\* items.find(around noon) || items[0]
NoonForecast(items, e) ==
    LET around == { i \in 1..Len(items) :
                       /\ LocalHour(items[i].dt, e) >= NOON_FROM
                       /\ LocalHour(items[i].dt, e) <= NOON_TO }
    IN  IF around = {}
        THEN items[1]
        ELSE items[CHOOSE i \in around : \A j \in around : i <= j]

\* the entry pushed for the chosen item
ForecastEntry(item, e) ==
    [ day       |-> DayName(LocalDay(item.dt, e)),
      temp      |-> Round(item.temp),
      condition |-> ToLower(item.main) ]

\* the loop over Object.keys(forecastsByDay).slice(0, 5)
ProcessedForecast(list, e) ==
    LET keys == DayKeys(list, <<>>)
        n    == IF Len(keys) < FORECAST_DAYS THEN Len(keys) ELSE FORECAST_DAYS
    IN  [ i \in 1..n |-> ForecastEntry(NoonForecast(ItemsOfDay(list, keys[i]), e), e) ]

\* the loop that fills in missing days
RECURSIVE FillMissing(_, _, _)
FillMissing(processed, temp, e) ==
    IF Len(processed) >= FORECAST_DAYS
    THEN processed
    ELSE LET ahead == IF Len(processed) > 0 THEN Len(processed) ELSE 1
         IN  FillMissing(
                 Append(processed,
                        [ day       |-> DayName(LocalDay(e.now, e) + ahead),
                          temp      |-> Round(temp),
                          condition |-> "cloudy" ]),
                 temp, e)

\* Math.round((currentData.visibility || 10000) / 1000); visibility is Null
\* when the response carries none, else Some(meters); 0 is falsy
VisibilityKm(visibility) ==
    LET meters == IF visibility = Null \/ visibility[1] = 0
                  THEN DEFAULT_VISIBILITY
                  ELSE visibility[1]
    IN  (meters + 500) \div 1000

\* formatWeatherDataFromAPI25 without the loop that fills in missing days
formatWeatherDataFromAPI25_NoFill(currentData, forecastData, e) ==
    [ location    |-> "Current Location",
      temperature |-> Round(currentData.temp),
      visibility  |-> VisibilityKm(currentData.visibility),
      forecast    |-> ProcessedForecast(forecastData, e) ]

\* formatWeatherDataFromAPI25(currentData, forecastData), run at clock e
formatWeatherDataFromAPI25(currentData, forecastData, e) ==
    [ location    |-> "Current Location",
      temperature |-> Round(currentData.temp),
      visibility  |-> VisibilityKm(currentData.visibility),
      forecast    |-> FillMissing(ProcessedForecast(forecastData, e),
                                  currentData.temp, e) ]

\* the inputs of the formatter
Offsets      == { -3, 0, 3 }
Nows         == { 6 }
CurrentTemps == { 185 }
Steps        == { 3, 12, 24 }
ItemKinds    == { [temp |-> 154, main |-> "Rain"],
                  [temp |-> -25, main |-> "Clear"] }

FormatInit ==
    /\ mounted = FALSE
    /\ hasGeolocation = TRUE
    /\ hasPermissions = TRUE
    /\ isFirefox = FALSE
    /\ geo = InitialGeo
    /\ attemptCount = 0
    /\ reqPhase = [r \in Attempts |-> "none"]
    /\ timerPending = FALSE
    /\ app = InitialApp
    /\ fetches = {}
    /\ fetchCount = 0
    /\ posCalled = {}
    /\ deniedAt = 0
    /\ lastEvent = Event("init", 0, 0)
    /\ env \in [tz : Offsets, now : Nows]
    /\ upstream \in [temp : CurrentTemps, visibility : {Null}, list : {<<>>}]
    /\ formatted = Null
    /\ served = Null

\* the forecast response carries one more item, later than the ones before
ForecastItem(step, kind) ==
    /\ formatted = Null
    /\ Len(upstream.list) < MaxItems
    /\ LET dt == IF upstream.list = <<>>
                 THEN 0
                 ELSE upstream.list[Len(upstream.list)].dt + step
       IN  upstream' = [upstream EXCEPT
                          !.list = Append(@, [dt |-> dt, temp |-> kind.temp,
                                              main |-> kind.main])]
    /\ UNCHANGED << appVars, env, formatted, served >>

\* fetchWeatherData returns the formatted record
Format ==
    /\ formatted = Null
    /\ formatted' = Some(formatWeatherDataFromAPI25(upstream, upstream.list, env))
    /\ UNCHANGED << appVars, env, upstream, served >>

FormatNext ==
    \/ \E step \in Steps, kind \in ItemKinds : ForecastItem(step, kind)
    \/ Format

FormatSpec == FormatInit /\ [][FormatNext]_vars

\* ------------------------------------------------ the service's functions
\* A call of a function of weather-service.ts is computed from the responses
\* the network gives to its requests. Its value is [fn, args, net, trace,
\* out]: net are the responses given, trace the calls of fetchWeatherData and
\* the HTTP requests issued, in order, and out what the promise settles with.
Returned(v) == [ kind |-> "returned", value |-> v ]
Threw(e)    == [ kind |-> "threw", value |-> e ]

\* an Error: the call it names and the HTTP status it carries (0 when none)
Error(call, status) == [ call |-> call, status |-> status ]

\* a call of fetchWeatherData or an HTTP request, with its coordinates
Request(op, lat, lon) == [ op |-> op, lat |-> lat, lon |-> lon ]

\* a response: status 0 stands for a fetch that rejects (no response at all)
Response(status, data) == [ status |-> status, data |-> data ]

\* response.ok
Ok(response) == response.status >= 200 /\ response.status <= 299

\* what the reverse-geocoding request may end in: fetch rejects, a status that
\* is not ok, a body that is not JSON, an empty array, a first match without
\* a name, a first match with a name
ReverseResponses == {"rejects", "notOk", "badJson", "empty", "noName", "named"}

\* the label of the catch and not-ok branches of getCityFromCoords
FailureLabel(lat, lon) ==
    IF NearFallback(lat, lon) THEN "NEW YORK, US" ELSE "Current Location"

\* the try block of getCityFromCoords
TryGetCity(lat, lon, response) ==
    IF response = "rejects"
    THEN Threw(Error("fetch", 0))
    ELSE IF response = "notOk"
    THEN Returned(FailureLabel(lat, lon))
    ELSE IF response = "badJson"
    THEN Threw(Error("json", 0))
    ELSE IF response = "empty"
    THEN Returned("Current Location")
    ELSE IF response = "noName"
    THEN Threw(Error("toUpperCase", 0))
    ELSE Returned("NAME, CC")

\* getCityFromCoordsCall without the catch block
getCityFromCoordsCall_NoCatch(lat, lon, response) ==
    [ fn    |-> "getCityFromCoords",
      args  |-> << lat, lon >>,
      net   |-> << response >>,
      trace |-> << Request("reverse", lat, lon) >>,
      out   |-> TryGetCity(lat, lon, response) ]

\* a call of getCityFromCoords(lat, lon)
getCityFromCoordsCall(lat, lon, response) ==
    LET tried == TryGetCity(lat, lon, response)
    IN  [ fn    |-> "getCityFromCoords",
          args  |-> << lat, lon >>,
          net   |-> << response >>,
          trace |-> << Request("reverse", lat, lon) >>,
          out   |-> IF tried.kind = "threw"
                    THEN Returned(FailureLabel(lat, lon))
                    ELSE tried ]

\* fetchWeatherDataCall formatting whatever the two responses carry, without
\* the checks of their status
fetchWeatherDataCall_NoStatusCheck(lat, lon, current, forecast, e) ==
    [ fn    |-> "fetchWeatherData",
      args  |-> << lat, lon >>,
      net   |-> << current, forecast >>,
      trace |-> << Request("fetchWeatherData", lat, lon),
                   Request("weather", lat, lon),
                   Request("forecast", lat, lon) >>,
      out   |-> IF current.status = 0 \/ forecast.status = 0
                THEN Threw(Error("fetch", 0))
                ELSE Returned(formatWeatherDataFromAPI25(current.data,
                                                         forecast.data, e)) ]

\* a call of fetchWeatherData(lat, lon): the request for the current weather,
\* then the request for the forecast, then the formatter; the catch block
\* rethrows
fetchWeatherDataCall(lat, lon, current, forecast, e) ==
    LET called == << Request("fetchWeatherData", lat, lon),
                     Request("weather", lat, lon) >>
        both   == Append(called, Request("forecast", lat, lon))
        base   == [ fn |-> "fetchWeatherData", args |-> << lat, lon >>,
                    net |-> << current, forecast >> ]
    IN  IF current.status = 0
        THEN base @@ [ trace |-> called, out |-> Threw(Error("fetch", 0)) ]
        ELSE IF ~Ok(current)
        THEN base @@ [ trace |-> called,
                       out |-> Threw(Error("current", current.status)) ]
        ELSE IF forecast.status = 0
        THEN base @@ [ trace |-> both, out |-> Threw(Error("fetch", 0)) ]
        ELSE IF ~Ok(forecast)
        THEN base @@ [ trace |-> both,
                       out |-> Threw(Error("forecast", forecast.status)) ]
        ELSE base @@ [ trace |-> both,
                       out |-> Returned(formatWeatherDataFromAPI25(
                                           current.data, forecast.data, e)) ]

\* fetchWeatherByCityCall going on with the coordinates (0, 0) when the
\* geocoding call returns no match
fetchWeatherByCityCall_NoMatchCheck(city, geocoded, current, forecast, e) ==
    LET asked == << Request("direct", 0, 0) >>
        base  == [ fn |-> "fetchWeatherByCity", args |-> << city >>,
                   net |-> << geocoded, current, forecast >> ]
    IN  IF geocoded.status = 0
        THEN base @@ [ trace |-> asked, out |-> Threw(Error("fetch", 0)) ]
        ELSE IF ~Ok(geocoded)
        THEN base @@ [ trace |-> asked,
                       out |-> Threw(Error("geocoding", geocoded.status)) ]
        ELSE LET lat  == IF geocoded.data = <<>> THEN 0 ELSE geocoded.data[1].lat
                 lon  == IF geocoded.data = <<>> THEN 0 ELSE geocoded.data[1].lon
                 data == fetchWeatherDataCall(lat, lon, current, forecast, e)
             IN  base @@ [ trace |-> asked \o data.trace, out |-> data.out ]

\* a call of fetchWeatherByCity(city): the geocoding request, then
\* fetchWeatherData for the first match; the catch block rethrows
fetchWeatherByCityCall(city, geocoded, current, forecast, e) ==
    LET asked == << Request("direct", 0, 0) >>
        base  == [ fn |-> "fetchWeatherByCity", args |-> << city >>,
                   net |-> << geocoded, current, forecast >> ]
    IN  IF geocoded.status = 0
        THEN base @@ [ trace |-> asked, out |-> Threw(Error("fetch", 0)) ]
        ELSE IF ~Ok(geocoded)
        THEN base @@ [ trace |-> asked,
                       out |-> Threw(Error("geocoding", geocoded.status)) ]
        ELSE IF geocoded.data = <<>>
        THEN base @@ [ trace |-> asked, out |-> Threw(Error("notFound", 0)) ]
        ELSE LET data == fetchWeatherDataCall(geocoded.data[1].lat, geocoded.data[1].lon,
                                              current, forecast, e)
             IN  base @@ [ trace |-> asked \o data.trace, out |-> data.out ]

\* the inputs of the service's functions
ReverseLats == { FALLBACK_LAT, FALLBACK_LAT + (EPSILON - 1), FALLBACK_LAT + EPSILON,
                 FALLBACK_LAT - EPSILON, 488566 }
ReverseLons == { FALLBACK_LON, FALLBACK_LON - (EPSILON - 1), FALLBACK_LON - EPSILON,
                 FALLBACK_LON + EPSILON, 23522 }
Visibilities == { Null, Some(0), Some(499), Some(500), Some(8000), Some(8500),
                  Some(10000) }
FailureStatuses == { 0, 404, 500 }
CurrentResponses ==
    { Response(status, NoResponse) : status \in FailureStatuses }
    \cup { Response(200, [temp |-> temp, visibility |-> visibility, list |-> <<>>]) :
             temp \in CurrentTemps, visibility \in Visibilities }
ForecastResponses ==
    { Response(status, <<>>) : status \in FailureStatuses }
    \cup { Response(200, list) :
             list \in { <<>>, << [dt |-> 12, temp |-> 154, main |-> "Rain"] >> } }
Matches == { [lat |-> 488566, lon |-> 23522], [lat |-> 515074, lon |-> -1278] }
GeoResponses ==
    { Response(status, <<>>) : status \in FailureStatuses }
    \cup { Response(200, <<>>) }
    \cup { Response(200, << m >>) : m \in Matches }
    \cup { Response(200, << m1, m2 >>) : m1 \in Matches, m2 \in Matches }
Cities == { "Paris" }

ServiceInit ==
    /\ mounted = FALSE
    /\ hasGeolocation = TRUE
    /\ hasPermissions = TRUE
    /\ isFirefox = FALSE
    /\ geo = InitialGeo
    /\ attemptCount = 0
    /\ reqPhase = [r \in Attempts |-> "none"]
    /\ timerPending = FALSE
    /\ app = InitialApp
    /\ fetches = {}
    /\ fetchCount = 0
    /\ posCalled = {}
    /\ deniedAt = 0
    /\ lastEvent = Event("init", 0, 0)
    /\ env \in [tz : {0}, now : Nows]
    /\ upstream = NoResponse
    /\ formatted = Null
    /\ served = Null

\* getCityFromCoords is called and settles
GetCity(lat, lon, response) ==
    /\ served = Null
    /\ served' = Some(getCityFromCoordsCall(lat, lon, response))
    /\ UNCHANGED << appVars, env, upstream, formatted >>

\* fetchWeatherData is called and settles
FetchData(lat, lon, current, forecast) ==
    /\ served = Null
    /\ served' = Some(fetchWeatherDataCall(lat, lon, current, forecast, env))
    /\ UNCHANGED << appVars, env, upstream, formatted >>

\* fetchWeatherByCity is called and settles
FetchByCity(city, geocoded, current, forecast) ==
    /\ served = Null
    /\ served' = Some(fetchWeatherByCityCall(city, geocoded, current, forecast,
                                             env))
    /\ UNCHANGED << appVars, env, upstream, formatted >>

ServiceNext ==
    \/ \E lat \in ReverseLats, lon \in ReverseLons, response \in ReverseResponses :
          GetCity(lat, lon, response)
    \/ \E m \in Matches, current \in CurrentResponses,
          forecast \in ForecastResponses :
          FetchData(m.lat, m.lon, current, forecast)
    \/ \E city \in Cities, geocoded \in GeoResponses,
          current \in CurrentResponses, forecast \in ForecastResponses :
          FetchByCity(city, geocoded, current, forecast)

ServiceSpec == ServiceInit /\ [][ServiceNext]_vars

\* ------------------------------------------------------------------ claims
FallbackCoords == [lat |-> FALLBACK_LAT, lon |-> FALLBACK_LON]

\* the four fields of the resolver that make up its machine state
Core(g) == << g.coordinates, g.error, g.permissionGranted, g.permissionState >>

IsRequestEvent(e) == e.kind \in {"buttonRequest", "timerRequest"}

\* C1: when the permission query of a request reports 'denied', the resolver
\* is in Denied right after it (no coordinates, not loading, permission not
\* granted, state 'denied') and getCurrentPosition is not and will not be
\* called for that request.
C1_PreflightDenied ==
    /\ [](lastEvent.kind = "queryDenied" =>
            /\ geo.coordinates = Null
            /\ geo.loading = FALSE
            /\ geo.permissionGranted = Some(FALSE)
            /\ geo.permissionState = Some("denied")
            /\ lastEvent.req \notin posCalled
            /\ reqPhase[lastEvent.req] = "done")
    /\ [][\A r \in Attempts :
             (reqPhase[r] = "done" /\ r \notin posCalled) =>
                 (reqPhase'[r] = "done" /\ r \notin posCalled')]_vars

\* the first request, made from the unasked state, was refused by the query
C1_Witness ==
    /\ lastEvent.kind = "queryDenied"
    /\ lastEvent.req = 1
    /\ attemptCount = 1
    /\ geo.permissionState = Some("denied")

\* C2: when a position request fails with a code other than
\* permission-denied, the resolver is in Fallback right after it: the
\* coordinates are (40.7128, -74.0060), the state is 'fallback', it is not
\* loading and the message contains "Using default location instead."
C2_FallbackOnError ==
    (lastEvent.kind = "error" /\ lastEvent.arg # PERMISSION_DENIED) =>
        /\ geo.coordinates = Some(FallbackCoords)
        /\ geo.permissionState = Some("fallback")
        /\ geo.loading = FALSE
        /\ geo.error # Null
        /\ Contains(geo.error[1], UsingDefault)

C2_Witness ==
    /\ lastEvent.kind = "error"
    /\ lastEvent.arg = TIMEOUT
    /\ geo.permissionState = Some("fallback")

\* C3: when a position request fails with the permission-denied code, the
\* resolver is in Denied right after it: permission not granted, state
\* 'denied', no coordinates (held ones are dropped), not loading, a non-empty
\* message, and not the fallback coordinates.
C3_DeniedOnError ==
    (lastEvent.kind = "error" /\ lastEvent.arg = PERMISSION_DENIED) =>
        /\ geo.permissionGranted = Some(FALSE)
        /\ geo.permissionState = Some("denied")
        /\ geo.coordinates = Null
        /\ geo.loading = FALSE
        /\ geo.error # Null
        /\ Len(geo.error[1]) > 0

\* the refusal arrived while a weather request for coordinates held before it
\* is still in flight
C3_Witness ==
    /\ lastEvent.kind = "error"
    /\ lastEvent.arg = PERMISSION_DENIED
    /\ geo.permissionState = Some("denied")
    /\ \E f \in fetches : f.kind = "coords"

\* the step is a call of requestGeolocation
RequestStep == IsRequestEvent(lastEvent') /\ lastEvent' # lastEvent

\* C4: once the resolver has entered Denied, its coordinates, error,
\* permissionGranted and permissionState do not change until
\* requestGeolocation is called again after that entry.
C4_DeniedTerminal ==
    [][ ( /\ geo.permissionState = Some("denied")
          /\ attemptCount = deniedAt
          /\ ~RequestStep )
        => Core(geo') = Core(geo) ]_vars

\* C5 as stated: every call of requestGeolocation in a runtime that has
\* geolocation increments the attempt counter by one, leaves loading = true
\* and leaves the permission check of the new request pending, whatever the
\* state it is called in.
C5_RequestRestarts ==
    [][ (RequestStep /\ hasGeolocation) =>
            /\ attemptCount' = attemptCount + 1
            /\ geo'.loading = TRUE
            /\ reqPhase'[attemptCount'] \in {"query", "position"} ]_vars

\* C5 as amended: every call increments the attempt counter by one, and the
\* counter changes in no other step; in a runtime that has geolocation the
\* call leaves loading = true, the machine state untouched and the permission
\* check of the new request pending (the query, or the position request when
\* there is no query), unless the position request throws during the call,
\* and then the call itself ends in Fallback with loading = false.
C5_RequestRestartsUnlessThrow ==
    /\ [][ attemptCount' # attemptCount => RequestStep ]_vars
    /\ [][ RequestStep =>
            /\ attemptCount' = attemptCount + 1
            /\ lastEvent'.req = attemptCount'
            /\ hasGeolocation =>
                 IF lastEvent'.arg = "threw"
                 THEN /\ ~hasPermissions
                      /\ geo' = useFallbackLocation(UnexpectedMsg)
                      /\ reqPhase'[attemptCount'] = "done"
                 ELSE /\ geo' = [geo EXCEPT !.loading = TRUE]
                      /\ reqPhase'[attemptCount'] =
                            IF hasPermissions THEN "query" ELSE "position" ]_vars

\* the second request was called in Denied (the first one was refused and no
\* other was pending) and it reached Resolved
C5_Witness ==
    /\ lastEvent.kind = "success"
    /\ lastEvent.req = 2
    /\ deniedAt = 1
    /\ reqPhase[1] = "done"
    /\ geo.permissionState = Some("granted")

\* C6: when the runtime has no geolocation, a call of requestGeolocation
\* leaves the resolver in Unsupported (state 'unsupported', permission not
\* granted, not loading, the capability message set), issues no permission
\* query and no position request, and the orchestrator's error is that
\* message.
C6_Unsupported ==
    (IsRequestEvent(lastEvent) /\ ~hasGeolocation) =>
        /\ geo.permissionState = Some("unsupported")
        /\ geo.permissionGranted = Some(FALSE)
        /\ geo.loading = FALSE
        /\ geo.error = Some(UnsupportedMsg)
        /\ posCalled = {}
        /\ \A r \in Attempts : reqPhase[r] \in {"none", "done"}
        /\ app.error = geo.error

\* C7: while requestGeolocation has not been called the resolver stays
\* unasked; its permission fields change only in a call of requestGeolocation
\* or in a callback of one; once they have left null they are never null
\* again.
C7_ForwardOnly ==
    /\ [](attemptCount = 0 =>
            geo.permissionGranted = Null /\ geo.permissionState = Null)
    /\ [][ ( \/ geo'.permissionGranted # geo.permissionGranted
             \/ geo'.permissionState # geo.permissionState )
           => ( /\ lastEvent' # lastEvent
                /\ \/ IsRequestEvent(lastEvent')
                   \/ lastEvent'.kind \in
                        {"queryDenied", "queryThrew", "success", "error"}
                /\ lastEvent'.req \in 1..attemptCount' ) ]_vars
    /\ [][ geo.permissionGranted # Null =>
             (geo'.permissionGranted # Null /\ geo'.permissionState # Null) ]_vars

\* a second request is pending after the first one left the unasked state
C7_Witness ==
    /\ attemptCount = 2
    /\ reqPhase[1] = "done"
    /\ reqPhase[2] \in {"query", "position"}
    /\ geo.permissionGranted # Null
    /\ geo.loading

\* C8: right after the first render the permission prompt is shown and
\* nothing has been asked of the browser; the prompt closes only by Allow or
\* Deny; requestGeolocation is called only by the location button or by the
\* timer that Allow armed; a permission query or position request belongs to
\* such a call; Deny changes nothing of the resolver and arms no timer.
C8_NoSilentGeolocation ==
    /\ [](lastEvent.kind = "mount" =>
            /\ app.showPermissionModal
            /\ attemptCount = 0
            /\ ~timerPending)
    /\ [](\A r \in Attempts :
            (reqPhase[r] # "none" \/ r \in posCalled) => r <= attemptCount)
    /\ [][ (app.showPermissionModal /\ ~app'.showPermissionModal) =>
             lastEvent'.kind \in {"allow", "deny"} ]_vars
    /\ [][ (timerPending' /\ ~timerPending) => lastEvent'.kind = "allow" ]_vars
    /\ [][ (attemptCount' # attemptCount \/ reqPhase' # reqPhase
                \/ posCalled' # posCalled) =>
             \/ lastEvent'.kind = "buttonRequest"
             \/ lastEvent'.kind = "timerRequest" /\ timerPending
             \/ /\ lastEvent'.kind \in {"queryDenied", "queryThrew",
                                        "queryPassed", "success", "error"}
                /\ attemptCount' = attemptCount ]_vars
    /\ [][ (lastEvent'.kind = "deny" /\ lastEvent' # lastEvent) =>
             UNCHANGED << geo, attemptCount, reqPhase, posCalled,
                          timerPending >> ]_vars

\* the prompt was dismissed with Deny and nothing was ever asked of the browser
C8_Witness ==
    /\ lastEvent.kind = "deny"
    /\ ~app.showPermissionModal
    /\ attemptCount = 0
    /\ geo = InitialGeo
    /\ posCalled = {}

\* the step moves the resolver into Resolved or Fallback
EntersWithCoords ==
    /\ lastEvent' # lastEvent
    /\ \/ lastEvent'.kind \in {"success", "queryThrew"}
       \/ lastEvent'.kind = "error" /\ lastEvent'.arg # PERMISSION_DENIED
       \/ IsRequestEvent(lastEvent') /\ lastEvent'.arg = "threw"

\* the step moves the resolver into Denied or Unsupported
EntersWithoutCoords ==
    /\ lastEvent' # lastEvent
    /\ \/ lastEvent'.kind = "queryDenied"
       \/ lastEvent'.kind = "error" /\ lastEvent'.arg = PERMISSION_DENIED
       \/ IsRequestEvent(lastEvent') /\ lastEvent'.arg = "unsupported"

\* the step starts exactly one weather request, by coordinates, for c
StartsCoordsFetchFor(c) ==
    /\ fetchCount' = fetchCount + 1
    /\ \E f \in fetches' :
          /\ fetches' = fetches \cup {f}
          /\ f.id = fetchCount'
          /\ f.kind = "coords" /\ f.held = (app.weatherData # Null)
          /\ f.lat = c.lat /\ f.lon = c.lon

\* C9: every entry of the resolver into Resolved(c) or Fallback(c) starts, in
\* the same task, one weather request by coordinates for c, also when c
\* equals the coordinates held before; an entry into Denied or Unsupported
\* starts none.
C9_EntryStartsFetch ==
    /\ [][ EntersWithCoords =>
             /\ geo'.coordinates # Null
             /\ geo'.permissionState \in {Some("granted"), Some("fallback")}
             /\ StartsCoordsFetchFor(geo'.coordinates[1]) ]_vars
    /\ [][ EntersWithoutCoords =>
             /\ geo'.permissionState \in {Some("denied"), Some("unsupported")}
             /\ UNCHANGED << fetches, fetchCount >> ]_vars

\* two resolutions in a row reported the same coordinates and each started a
\* weather request
C9_Witness ==
    /\ lastEvent.kind = "success"
    /\ fetchCount = 2
    /\ \E f1, f2 \in fetches :
          /\ f1.id = 1 /\ f2.id = 2
          /\ f1.kind = "coords" /\ f2.kind = "coords"
          /\ f1.lat = f2.lat /\ f1.lon = f2.lon
          /\ geo.coordinates = Some([lat |-> f2.lat, lon |-> f2.lon])

\* the state is the result of an entry into Fallback
AfterFallbackEntry ==
    \/ lastEvent.kind = "queryThrew"
    \/ lastEvent.kind = "error" /\ lastEvent.arg # PERMISSION_DENIED
    \/ IsRequestEvent(lastEvent) /\ lastEvent.arg = "threw"

\* C10: right after an entry into Fallback the orchestrator's error is none,
\* it is loading and a weather request for the fallback coordinates is in
\* flight; as long as the resolver is in Fallback its advisory message stays
\* in the resolver's state and is never the orchestrator's error.
C10_FallbackNotBlocking ==
    /\ AfterFallbackEntry =>
          /\ geo.permissionState = Some("fallback")
          /\ app.error = Null
          /\ app.loading
          /\ \E f \in fetches :
                /\ f.id = fetchCount
                /\ f.kind = "coords"
                /\ f.lat = FALLBACK_LAT /\ f.lon = FALLBACK_LON
    /\ geo.permissionState = Some("fallback") =>
          /\ geo.error # Null
          /\ Contains(geo.error[1], UsingDefault)
          /\ app.error # geo.error

\* the resolver fell back while the orchestrator was showing an error of an
\* earlier refusal, and the orchestrator's error was cleared
C10_Witness ==
    /\ AfterFallbackEntry
    /\ deniedAt = 1
    /\ lastEvent.req = 2
    /\ app.error = Null
    /\ geo.error # Null

\* the step is the handling of a failed request by coordinates
CoordsFailedStep ==
    lastEvent' # lastEvent /\ lastEvent'.kind = "coordsFailed"

\* the step is the handling of a successful request by coordinates
CoordsDoneStep ==
    lastEvent' # lastEvent /\ lastEvent'.kind = "coordsDone"

\* C11: when a request by coordinates fails and a record is held at the
\* moment the failure is handled, the record is left unchanged; the hardcoded
\* fallback record is stored only when no record is held at that moment.
C11_FailureKeepsHeldRecord ==
    [][ CoordsFailedStep =>
          app'.weatherData = IF app.weatherData # Null
                             THEN app.weatherData
                             ELSE Some(fallbackWeatherData) ]_vars

\* C12: when a request by coordinates fails and no record is held, the
\* orchestrator's error becomes the 'Failed to fetch weather data' message;
\* when a record is held, the failure does not make the error non-empty.
C12_FailureErrorOnlyWithoutRecord ==
    [][ CoordsFailedStep =>
          IF app.weatherData = Null
          THEN app'.error = Some(FailedFetchMsg)
          ELSE app.error = Null => app'.error = Null ]_vars

\* C13: right after a request by coordinates completed with success, the
\* orchestrator's error is none and the held record is the fetched one, its
\* location being the string getCityFromCoords resolved to for the
\* coordinates of the request.
C13_SuccessClearsError ==
    [][ CoordsDoneStep =>
          /\ app'.error = Null
          /\ \E f \in fetches, outcome \in ReverseOutcomes :
                /\ f.id = lastEvent'.req
                /\ f.kind = "coords"
                /\ app'.weatherData =
                     Some([WeatherRecord(f.id) EXCEPT
                             !.location = getCityFromCoords(f.lat, f.lon, outcome)])
       ]_vars

\* C14: right after a search for a non-blank text completed with success
\* (geocoding returned a match and the weather calls succeeded), the held
\* record is the one fetched for it and its location is the name of the
\* searched city, not the placeholder "Current Location".
C14_SearchNamesCity ==
    lastEvent.kind = "searchDone" =>
        /\ app.weatherData # Null
        /\ app.weatherData[1].body = lastEvent.req
        /\ app.weatherData[1].location # "Current Location"

\* the step is a submission of the search form
SubmitStep ==
    lastEvent' # lastEvent /\ lastEvent'.kind \in {"searchBlank", "search"}

\* C15: submitting the search form while the text is empty or only white
\* space starts no request and leaves the orchestrator's state (query,
\* record, loading, error, modal) and the resolver's state unchanged.
C15_BlankSearchNoop ==
    [][ (SubmitStep /\ Trim(app.searchQuery) = <<>>) =>
          /\ lastEvent'.kind = "searchBlank"
          /\ UNCHANGED << app, geo, fetches, fetchCount >> ]_vars

\* a text of white space only was submitted while a record was held
C15_Witness ==
    /\ lastEvent.kind = "searchBlank"
    /\ app.searchQuery = <<" ">>
    /\ app.weatherData # Null
    /\ fetches = {}

\* the step is the handling of a failed search
SearchFailedStep ==
    lastEvent' # lastEvent /\ lastEvent'.kind = "searchFailed"

\* C16: when a search fails (for each way fetchWeatherByCity fails), the error
\* becomes the 'Location not found' message, loading becomes false, and the
\* held record (none or one), the query text and the modal stay as they were.
C16_SearchFailureKeepsRecord ==
    [][ SearchFailedStep =>
          /\ app' = [app EXCEPT !.error = Some(NotFoundMsg), !.loading = FALSE]
          /\ \E f \in fetches :
                f.id = lastEvent'.req /\ f.kind = "search" /\ f \notin fetches'
       ]_vars

\* a search failed while a record was held and the text was still in the field
C16_Witness ==
    /\ lastEvent.kind = "searchFailed"
    /\ app.weatherData # Null
    /\ app.searchQuery = <<" ", "P">>
    /\ app.error = Some(NotFoundMsg)
    /\ ~app.loading

\* the step is the handling of a request that completed with success
DoneStep ==
    lastEvent' # lastEvent /\ lastEvent'.kind \in {"searchDone", "coordsDone"}

\* C17: no request is cancelled: a request leaves the set of requests in
\* flight only when its own response is handled; and the response of a
\* request that completes with success is stored as the held record whatever
\* requests were started after it, so the record held once all have completed
\* is the one of the response that arrived last.
C17_LastResponseWins ==
    /\ [][ \A f \in fetches :
             f \notin fetches' =>
                /\ lastEvent' # lastEvent
                /\ lastEvent'.req = f.id
                /\ lastEvent'.kind \in
                     {"searchDone", "searchFailed", "coordsDone", "coordsFailed"}
       ]_vars
    /\ [][ DoneStep =>
             /\ app'.weatherData # Null
             /\ app'.weatherData[1].body = lastEvent'.req
             /\ \E f \in fetches : f.id = lastEvent'.req /\ fetches' = fetches \ {f}
       ]_vars

\* the response of the request started first arrived after the response of the
\* request started second had been stored, and replaced it
C17_Witness ==
    /\ lastEvent.kind \in {"searchDone", "coordsDone"}
    /\ lastEvent.req = 1
    /\ lastEvent.arg = 2
    /\ fetches = {}
    /\ app.weatherData # Null
    /\ app.weatherData[1].body = 1

\* the first-load prompt has been answered and no position request, timer of
\* one, weather request or search is pending
Quiescent ==
    /\ mounted
    /\ ~app.showPermissionModal
    /\ ~timerPending
    /\ \A r \in Attempts : reqPhase[r] \in {"none", "done"}
    /\ fetches = {}

\* C18: in every state in which the first-load prompt has been answered and
\* no geolocation request (the timer that Allow armed included), weather
\* request or search is pending, neither the orchestrator nor the resolver is
\* loading and a record is held or an error is displayed.
C18_NeverBlank ==
    Quiescent =>
        /\ ~app.loading
        /\ ~geo.loading
        /\ app.weatherData # Null \/ app.error # Null

\* the request that followed Allow was refused: no record, the error is shown
C18_Witness ==
    /\ Quiescent
    /\ attemptCount >= 1
    /\ geo.permissionState = Some("denied")
    /\ app.weatherData = Null
    /\ app.error = geo.error

\* the calendar days of the list as the formatter keys them
ForecastDays == DayKeys(upstream.list, <<>>)

\* C19: the forecast of the record has exactly 5 entries: each of the first 5
\* distinct days of the list gives one entry, taken from an item of that day,
\* and the entries after them carry the rounded current temperature and the
\* condition 'cloudy'.
C19_FiveEntries ==
    formatted # Null =>
        LET forecast == formatted[1].forecast
            n == IF Len(ForecastDays) < FORECAST_DAYS
                 THEN Len(ForecastDays) ELSE FORECAST_DAYS
        IN  /\ Len(forecast) = 5
            /\ \A i \in 1..n :
                  \E k \in 1..Len(upstream.list) :
                     /\ UtcDay(upstream.list[k].dt) = ForecastDays[i]
                     /\ forecast[i].temp = Round(upstream.list[k].temp)
                     /\ forecast[i].condition = ToLower(upstream.list[k].main)
            /\ \A i \in (n + 1)..5 :
                  /\ forecast[i].temp = Round(upstream.temp)
                  /\ forecast[i].condition = "cloudy"

\* a list of six distinct days was formatted
C19_Witness ==
    /\ formatted # Null
    /\ Len(ForecastDays) = 6
    /\ Len(formatted[1].forecast) = 5

\* the local calendar days of the list, in the order of their first entry
RECURSIVE LocalDayKeys(_, _)
LocalDayKeys(list, acc) ==
    IF list = <<>>
    THEN acc
    ELSE LET day == LocalDay(Head(list).dt, env)
         IN  LocalDayKeys(Tail(list),
                          IF \E i \in 1..Len(acc) : acc[i] = day
                          THEN acc
                          ELSE Append(acc, day))

\* the item the claim selects for a local calendar day: the first one between
\* 11:00 and 13:00 local time, else the first one of the day
LocalDaySelection(day) ==
    NoonForecast(SelectSeq(upstream.list,
                           LAMBDA item : LocalDay(item.dt, env) = day), env)

\* C20: the forecast has one entry for each of the first 5 distinct local
\* calendar days of the list, built from the item of that day between 11:00
\* and 13:00 local time when there is one and from the first item of that day
\* otherwise.
C20_LocalDayGrouping ==
    formatted # Null =>
        LET forecast == formatted[1].forecast
            keys == LocalDayKeys(upstream.list, <<>>)
            n == IF Len(keys) < FORECAST_DAYS THEN Len(keys) ELSE FORECAST_DAYS
        IN  /\ \A i \in 1..n :
                  forecast[i] = ForecastEntry(LocalDaySelection(keys[i]), env)
            /\ \A i \in (n + 1)..5 : forecast[i].condition = "cloudy"

\* the latest call of the service is a call of fn
Served(fn) == served # Null /\ served[1].fn = fn

\* C21: for coordinates within the tolerance of the fallback constant,
\* getCityFromCoords returns "NEW YORK, US" when the reverse-geocoding call
\* ends with a status that is not ok, with a network exception or with an
\* empty result; for coordinates outside the tolerance it returns
\* "Current Location" in these cases.
C21_FallbackLabelOnFailure ==
    (Served("getCityFromCoords")
        /\ served[1].net[1] \in {"notOk", "rejects", "empty"}) =>
        /\ served[1].out.kind = "returned"
        /\ served[1].out.value =
             IF NearFallback(served[1].args[1], served[1].args[2])
             THEN "NEW YORK, US"
             ELSE "Current Location"

\* the outcome of the orchestrator's model that a response stands for
ReverseOutcomeOf(response) ==
    IF response \in {"rejects", "badJson"} THEN "throws" ELSE response

\* C22: whatever the reverse-geocoding call ends in (a status that is not ok,
\* a network exception, an unparsable body, an empty list, a first match
\* without a name, a named match), getCityFromCoords settles by returning a
\* string, the one the orchestrator stores, and never by throwing.
C22_GetCityNeverThrows ==
    Served("getCityFromCoords") =>
        /\ served[1].out.kind = "returned"
        /\ served[1].out.value \in {"NEW YORK, US", "Current Location", "NAME, CC"}
        /\ served[1].out.value =
             getCityFromCoords(served[1].args[1], served[1].args[2],
                               ReverseOutcomeOf(served[1].net[1]))

\* the first match had no name, far from the fallback constant
C22_Witness ==
    /\ Served("getCityFromCoords")
    /\ served[1].net[1] = "noName"
    /\ ~NearFallback(served[1].args[1], served[1].args[2])
    /\ served[1].out.kind = "returned"
    /\ served[1].out.value = "Current Location"

\* the calls of fetchWeatherData in the trace of the latest call
DataCalls ==
    { i \in 1..Len(served[1].trace) : served[1].trace[i].op = "fetchWeatherData" }

\* C23: fetchWeatherByCity throws the not-found error when the geocoding call
\* returns no match, and then, as when the geocoding call itself fails,
\* fetchWeatherData is not called; with at least one match it calls
\* fetchWeatherData exactly once, with the coordinates of the first match, and
\* settles as that call settles.
C23_ByCityDelegates ==
    Served("fetchWeatherByCity") =>
        LET geocoded == served[1].net[1]
        IN  IF ~Ok(geocoded)
            THEN /\ served[1].out.kind = "threw"
                 /\ DataCalls = {}
            ELSE IF Len(geocoded.data) = 0
            THEN /\ served[1].out = Threw(Error("notFound", 0))
                 /\ DataCalls = {}
            ELSE /\ Cardinality(DataCalls) = 1
                 /\ \A i \in DataCalls :
                       served[1].trace[i] =
                          Request("fetchWeatherData", geocoded.data[1].lat,
                                  geocoded.data[1].lon)
                 /\ served[1].out =
                       fetchWeatherDataCall(geocoded.data[1].lat,
                                            geocoded.data[1].lon,
                                            served[1].net[2], served[1].net[3],
                                            env).out

\* two different matches were returned and the weather of the first one was
\* fetched
C23_Witness ==
    /\ Served("fetchWeatherByCity")
    /\ Len(served[1].net[1].data) = 2
    /\ served[1].net[1].data[1] # served[1].net[1].data[2]
    /\ served[1].out.kind = "returned"
    /\ Cardinality(DataCalls) = 1

\* C24: fetchWeatherData returns a record only when the request for the
\* current weather and the request for the forecast were both issued and both
\* answered with a success status; when the first answers with another
\* status it throws an error naming the current call and carrying that
\* status, when the second does, an error naming the forecast call and
\* carrying its status; a call that throws produces no record.
C24_BothCallsSucceed ==
    Served("fetchWeatherData") =>
        LET current  == served[1].net[1]
            forecast == served[1].net[2]
            out      == served[1].out
            lat      == served[1].args[1]
            lon      == served[1].args[2]
        IN  /\ out.kind = "returned" =>
                 /\ Ok(current) /\ Ok(forecast)
                 /\ served[1].trace = << Request("fetchWeatherData", lat, lon),
                                         Request("weather", lat, lon),
                                         Request("forecast", lat, lon) >>
            /\ (current.status # 0 /\ ~Ok(current)) =>
                 out = Threw(Error("current", current.status))
            /\ (Ok(current) /\ forecast.status # 0 /\ ~Ok(forecast)) =>
                 out = Threw(Error("forecast", forecast.status))
            /\ (~Ok(current) \/ ~Ok(forecast)) => out.kind = "threw"

\* the current weather was answered with 200 and the forecast with 500
C24_Witness ==
    /\ Served("fetchWeatherData")
    /\ served[1].net[1].status = 200
    /\ served[1].net[2].status = 500
    /\ served[1].out.kind = "threw"
    /\ served[1].out.value = Error("forecast", 500)

\* C25: the visibility of the record is the upstream visibility in meters
\* divided by 1000 and rounded to the nearest integer, for every upstream
\* value, and 10 when the response carries none.
C25_VisibilityKm ==
    (Served("fetchWeatherData") /\ served[1].out.kind = "returned") =>
        LET visibility == served[1].net[1].data.visibility
        IN  served[1].out.value.visibility =
               IF visibility = Null
               THEN 10
               ELSE (visibility[1] + 500) \div 1000

\* C26: no failure of the resolver escapes as an exception: a request is
\* always unasked, waiting for the permission query, waiting for the position
\* or done; a permission query that resolves or rejects without reporting
\* 'denied' is followed by the position request; a position request that
\* throws ends the request in Fallback with the 'Unexpected error' message;
\* a coded failure ends it in Denied or Fallback; each failure is recorded in
\* error, permissionGranted and permissionState.
C26_NoEscape ==
    /\ \A r \in Attempts : reqPhase[r] \in {"none", "query", "position", "done"}
    /\ lastEvent.kind = "queryPassed" =>
          /\ reqPhase[lastEvent.req] = "position"
          /\ lastEvent.req \in posCalled
    /\ (lastEvent.kind = "queryThrew"
           \/ (IsRequestEvent(lastEvent) /\ lastEvent.arg = "threw")) =>
          /\ reqPhase[lastEvent.req] = "done"
          /\ geo = useFallbackLocation(UnexpectedMsg)
    /\ lastEvent.kind = "error" =>
          /\ reqPhase[lastEvent.req] = "done"
          /\ geo.error # Null
          /\ geo.permissionGranted # Null
          /\ geo.permissionState \in {Some("denied"), Some("fallback")}

\* the position request threw after the permission query had settled
C26_Witness ==
    /\ lastEvent.kind = "queryThrew"
    /\ reqPhase[lastEvent.req] = "done"
    /\ geo.permissionState = Some("fallback")
    /\ geo.error = Some(UnexpectedMsg \o <<UsingDefault>>)

\* C27: in every reachable state of the resolver: permissionGranted = true
\* implies coordinates are held; permissionGranted = false implies no
\* coordinates and an error; state 'fallback' implies the coordinates
\* (40.7128, -74.0060); state 'granted' implies no error.
C27_ResolverInvariant ==
    /\ geo.permissionGranted = Some(TRUE) => geo.coordinates # Null
    /\ geo.permissionGranted = Some(FALSE) =>
          (geo.coordinates = Null /\ geo.error # Null)
    /\ geo.permissionState = Some("fallback") =>
          geo.coordinates = Some(FallbackCoords)
    /\ geo.permissionState = Some("granted") => geo.error = Null

\* the second request succeeded after the first one had been refused
C27_Witness ==
    /\ geo.permissionState = Some("granted")
    /\ deniedAt = 1
    /\ attemptCount = 2
    /\ geo.error = Null
    /\ geo.coordinates # Null

\* C28: the orchestrator is loading in every state in which a weather request
\* or a search it started is in flight.
C28_LoadingWhileInFlight ==
    fetches # {} => app.loading

\* the step is a click on Deny (or the close button) of the prompt
DenyStep ==
    lastEvent' # lastEvent /\ lastEvent'.kind = "deny"

\* C29: declining the prompt closes it, stores the hardcoded fallback record
\* if and only if no record is held, and leaves a held record, the error, the
\* query, the loading flag, the resolver and the requests in flight
\* unchanged; once the prompt has been closed it is never shown again.
C29_DenyOnce ==
    /\ [][ DenyStep =>
             /\ app' = [app EXCEPT
                          !.showPermissionModal = FALSE,
                          !.weatherData = IF app.weatherData = Null
                                          THEN Some(fallbackWeatherData)
                                          ELSE app.weatherData]
             /\ UNCHANGED << geo, attemptCount, reqPhase, timerPending,
                             fetches, fetchCount >> ]_vars
    /\ [][ (mounted /\ ~app.showPermissionModal) =>
             ~app'.showPermissionModal ]_vars

\* the prompt was declined while the record of a request was held
C29_Witness ==
    /\ lastEvent.kind = "deny"
    /\ ~app.showPermissionModal
    /\ HeldBody(app) >= 1

====
